---- MODULE Spec2Model ----
(***************************************************************************)
(* LULC change detection: the acquisition pipeline (download_data.py) and  *)
(* the analysis pipeline (main_analysis.py).                               *)
(*                                                                         *)
(* A raster is modelled by the sequence of its pixels in row-major order,   *)
(* and its shape by the number of pixels: two rasters of the model have    *)
(* the same shape exactly when they have the same length. A label raster's *)
(* pixel is a class code; a multispectral raster's pixel is a tuple of 6   *)
(* band values. Percentages are exact rationals [num, den] standing for    *)
(* the float64 value num/den.                                              *)
(***************************************************************************)
EXTENDS Integers, Sequences, FiniteSets, TLC

\* ------------------------------------------------------------- constants
FirstYear == 2018
StopYear == 2026
years == FirstYear .. (StopYear - 1)
BuiltArea == 6
CLASSES == 0 .. 8

\* ---------------------------------------------------------------- bounds
\* widest label raster of the data-driven runs (SpecData)
MaxPix == 3
\* widest multispectral raster handed to calculate_indices (SpecIndices)
MaxW == 2
\* most downloads that fail in one acquisition run (SpecAcq)
MaxFailures == 2

VARIABLES
    pc,           \* position of the running script
    lc,           \* data_v2/LandCover_<year>.tif, per year
    s2,           \* data_v2/Sentinel2_<year>.tif, per year
    dl_log,       \* download_image calls made so far, with their outcome
    year,         \* analyze_data: the loop variable
    urban_stats,  \* analyze_data: the statistics sequence
    maps,         \* results/map_<year>.png written
    satellites,   \* results/satellite_<year>.png written
    cls,          \* results/classification_<year>.tif, per year
    reads,        \* classification files opened by the change step, in order
    lc_start,     \* analyze_data: raster read for the start year
    lc_end,       \* analyze_data: raster read for the end year
    change_map,   \* analyze_data: the change mask
    change_saved, \* results/change_map.png written
    report,       \* results/analysis_report.txt
    img,          \* calculate_indices: its argument
    features      \* calculate_indices: its result

vars == <<pc, lc, s2, dl_log, year, urban_stats, maps, satellites, cls, reads,
          lc_start, lc_end, change_map, change_saved, report, img, features>>

dataDir == <<lc, s2>>
acqVars == <<dl_log>>
outDir == <<maps, satellites, cls>>
changeVars == <<reads, lc_start, lc_end, change_map, change_saved>>
idxVars == <<img, features>>

\* ------------------------------------------------------------------ files
Absent == [st |-> "absent", px |-> <<>>]
\* a file that was opened for writing and never completely written
Partial == [st |-> "partial", px |-> <<>>]
Valid(px) == [st |-> "valid", px |-> px]

\* os.path.exists
Exists(f) == f.st # "absent"

\* the label raster of a year in the fixed scene: the first pixel turns
\* built-up three years in, the second pixel differs from year to year
Scene(y) == << IF y - FirstYear >= 3 THEN BuiltArea ELSE 4, y - FirstYear >>

\* label rasters of the data-driven runs: every class code at width 1, and
\* every arrangement of a non-urban and the urban code at widths 2..MaxPix
RastersOver(S, n) == [1 .. n -> S]
Rasters ==
    RastersOver(CLASSES, 1)
        \cup UNION { RastersOver({5, BuiltArea}, n) : n \in 2 .. MaxPix }

\* -------------------------------------------------- main_analysis: helpers
\* counts every class code from 6 up
UrbanPixels_AtLeast(lc_data) ==
    Cardinality({ i \in DOMAIN lc_data : lc_data[i] >= BuiltArea })

\* np.sum(lc_data == 6)
UrbanPixels(lc_data) ==
    Cardinality({ i \in DOMAIN lc_data : lc_data[i] = BuiltArea })

\* (urban_pixels / lc_data.size) * 100
UrbanPct(lc_data) ==
    [num |-> UrbanPixels(lc_data) * 100, den |-> Len(lc_data)]

\* inserts the entry at the front
AppendStat_Front(stats, y, pct) == << <<y, pct>> >> \o stats

\* urban_stats.append((year, urban_pct))
AppendStat(stats, y, pct) == Append(stats, <<y, pct>>)

\* .astype(rasterio.uint8) of one value
AsUint8(v) == v % 256

\* lc_data.astype(rasterio.uint8), written as band 1 of a count=1 raster
Classification(lc_data) == [i \in DOMAIN lc_data |-> AsUint8(lc_data[i])]

\* the loop's next position after the iteration for year y
AfterYear(y) == IF y + 1 = StopYear THEN "change" ELSE "loop"

\* len(urban_stats) >= 2
HasTwo(stats) == Len(stats) >= 2

\* urban_stats[0][0]
StartYear(stats) == stats[1][1]

\* takes the second entry for the last
EndYear_Second(stats) == stats[2][1]

\* urban_stats[-1][0]
EndYear(stats) == stats[Len(stats)][1]

\* (lc_start != 6) & (lc_end == 6) combines elementwise: numpy raises unless
\* the two rasters have the same shape
ShapesCombine(a, b) == Len(b) = Len(a)

\* np.zeros_like(lc_start)
ZerosLike(a) == [i \in DOMAIN a |-> 0]

\* the mask marks every pixel whose label changed
ChangeMask_AnyChange(a, b) ==
    [i \in DOMAIN a |-> IF a[i] # b[i] THEN 1 ELSE ZerosLike(a)[i]]

\* change_map[(lc_start != 6) & (lc_end == 6)] = 1
ChangeMask(a, b) ==
    [i \in DOMAIN a |->
        IF a[i] # BuiltArea /\ b[i] = BuiltArea THEN 1 ELSE ZerosLike(a)[i]]

\* ------------------------------------------------ main_analysis: the report
Abs(n) == IF n < 0 THEN -n ELSE n

\* the integer nearest to n/d (n >= 0, d > 0), an exact tie going to even,
\* as format does for a float64 that is exactly a tie; a tie needs a raster
\* of a multiple of 32 pixels
RoundHalfEven(n, d) ==
    LET q == n \div d
        r == n % d
    IN  IF 2 * r < d THEN q
        ELSE IF 2 * r > d THEN q + 1
        ELSE IF q % 2 = 0 THEN q ELSE q + 1

\* format(x, ".2f") and, with plus, format(x, "+.2f")
Fmt2(x, plus) ==
    LET c == RoundHalfEven(Abs(x.num) * 100, x.den)
    IN  [sign |-> IF x.num < 0 THEN "-" ELSE IF plus THEN "+" ELSE "",
         whole |-> c \div 100,
         frac |-> c % 100]

\* first minus last
Growth_FirstMinusLast(stats) ==
    LET a == stats[1][2]
        b == stats[Len(stats)][2]
    IN  [num |-> a.num * b.den - b.num * a.den, den |-> a.den * b.den]

\* urban_stats[-1][1] - urban_stats[0][1]
Growth(stats) ==
    LET a == stats[1][2]
        b == stats[Len(stats)][2]
    IN  [num |-> b.num * a.den - a.num * b.den, den |-> a.den * b.den]

Header ==
    << [kind |-> "text", s |-> "URBAN LULC CHANGE DETECTION REPORT"],
       [kind |-> "text", s |-> "=================================="],
       [kind |-> "text", s |-> ""],
       [kind |-> "text", s |-> "Methodology: Analysis of Google Dynamic World V1 Dataset"],
       [kind |-> "text", s |-> "Classes: Dynamic World Schema (9 classes)"],
       [kind |-> "text", s |-> ""],
       [kind |-> "text", s |-> "Yearly Urban Area Statistics:"],
       [kind |-> "text", s |-> "-----------------------------"] >>

\* f"{year}: {pct:.2f}% Urban Coverage\n"
PctLine(e) == [kind |-> "pct", year |-> e[1], value |-> Fmt2(e[2], FALSE)]

\* f"\nTotal Urban Growth ({first}-{last}): {growth:+.2f}%\n"
GrowthLine(stats) ==
    [kind |-> "growth", from |-> StartYear(stats), to |-> EndYear(stats),
     value |-> Fmt2(Growth(stats), TRUE)]

ReportLines(stats) ==
    Header
        \o [i \in 1 .. Len(stats) |-> PctLine(stats[i])]
        \o (IF HasTwo(stats) THEN << GrowthLine(stats) >> ELSE << >>)

\* ----------------------------------------------- main_analysis: the actions
\* skips a year that lacks either of its two files
SkipYear_IfNoSatellite ==
    /\ pc = "loop"
    /\ ~Exists(lc[year]) \/ s2[year] = "absent"
    /\ year' = year + 1
    /\ pc' = AfterYear(year)
    /\ UNCHANGED <<dataDir, acqVars, urban_stats, outDir, changeVars, report, idxVars>>

\* the year's label file is missing: "Skipping Year"
SkipYear ==
    /\ pc = "loop"
    /\ ~Exists(lc[year])
    /\ year' = year + 1
    /\ pc' = AfterYear(year)
    /\ UNCHANGED <<dataDir, acqVars, urban_stats, outDir, changeVars, report, idxVars>>

\* one whole iteration for a year whose label file is a readable raster
ProcessYear ==
    /\ pc = "loop"
    /\ lc[year].st = "valid"
    /\ s2[year] # "partial"
    /\ urban_stats' = AppendStat(urban_stats, year, UrbanPct(lc[year].px))
    /\ maps' = maps \cup {year}
    /\ satellites' = IF s2[year] # "absent" THEN satellites \cup {year} ELSE satellites
    /\ cls' = [cls EXCEPT ![year] = Valid(Classification(lc[year].px))]
    /\ year' = year + 1
    /\ pc' = AfterYear(year)
    /\ UNCHANGED <<dataDir, acqVars, changeVars, report, idxVars>>

\* load_image raises on a label file that is no complete raster; the
\* exception is not caught and ends the run
LoadFails ==
    /\ pc = "loop"
    /\ lc[year].st = "partial"
    /\ pc' = "crashed"
    /\ UNCHANGED <<dataDir, acqVars, year, urban_stats, outDir, changeVars, report, idxVars>>

\* load_image raises on the Sentinel-2 file, after the statistic was
\* appended and the map saved, before the classification raster is written
SatelliteLoadFails ==
    /\ pc = "loop"
    /\ lc[year].st = "valid"
    /\ s2[year] = "partial"
    /\ urban_stats' = AppendStat(urban_stats, year, UrbanPct(lc[year].px))
    /\ maps' = maps \cup {year}
    /\ pc' = "crashed"
    /\ UNCHANGED <<dataDir, acqVars, year, satellites, cls, changeVars, report, idxVars>>

\* "4. Generate Change Map", when it runs to its end
GenerateChangeMap ==
    /\ pc = "change"
    /\ IF HasTwo(urban_stats)
       THEN LET a == cls[StartYear(urban_stats)].px
                b == cls[EndYear(urban_stats)].px
            IN  /\ ShapesCombine(a, b)
                /\ reads' = << StartYear(urban_stats), EndYear(urban_stats) >>
                /\ lc_start' = a
                /\ lc_end' = b
                /\ change_map' = ChangeMask(a, b)
                /\ change_saved' = TRUE
       ELSE UNCHANGED changeVars
    /\ pc' = "report"
    /\ UNCHANGED <<dataDir, acqVars, year, urban_stats, outDir, report, idxVars>>

\* the two rasters do not combine: numpy raises at the masked assignment
ChangeMapFails ==
    /\ pc = "change"
    /\ HasTwo(urban_stats)
    /\ LET a == cls[StartYear(urban_stats)].px
           b == cls[EndYear(urban_stats)].px
       IN  /\ ~ShapesCombine(a, b)
           /\ reads' = << StartYear(urban_stats), EndYear(urban_stats) >>
           /\ lc_start' = a
           /\ lc_end' = b
           /\ change_map' = ZerosLike(a)
    /\ pc' = "crashed"
    /\ UNCHANGED <<dataDir, acqVars, year, urban_stats, outDir, change_saved, report, idxVars>>

\* "5. Generate Report"
GenerateReport ==
    /\ pc = "report"
    /\ report' = [written |-> TRUE, lines |-> ReportLines(urban_stats)]
    /\ pc' = "done"
    /\ UNCHANGED <<dataDir, acqVars, year, urban_stats, outDir, changeVars, idxVars>>

\* ------------------------------------------------------------ initial states
NoFiles == [y \in years |-> Absent]
NoS2 == [y \in years |-> "absent"]
NoReport == [written |-> FALSE, lines |-> << >>]
NoImage == [dtype |-> "none", px |-> << >>]

\* analyze_data's locals and the results directory before the run
AnalysisStart ==
    /\ year = FirstYear
    /\ urban_stats = << >>
    /\ maps = {}
    /\ satellites = {}
    /\ cls = NoFiles
    /\ reads = << >>
    /\ lc_start = << >>
    /\ lc_end = << >>
    /\ change_map = << >>
    /\ change_saved = FALSE
    /\ report = NoReport

\* analyze_data over a data directory that holds, for any set of years, the
\* scene's label raster, and for any set of years a Sentinel-2 raster
Init ==
    /\ pc = "loop"
    /\ \E P \in SUBSET years :
          lc = [y \in years |-> IF y \in P THEN Valid(Scene(y)) ELSE Absent]
    /\ \E Q \in SUBSET years :
          s2 = [y \in years |-> IF y \in Q THEN "valid" ELSE "absent"]
    /\ dl_log = << >>
    /\ AnalysisStart
    /\ img = NoImage
    /\ features = << >>

\* every label raster of Init has the scene's width, so ChangeMapFails is
\* never enabled; every file is a complete raster, so neither is LoadFails
Next ==
    \/ SkipYear
    \/ ProcessYear
    \/ GenerateChangeMap
    \/ GenerateReport

Spec == Init /\ [][Next]_vars

\* analyze_data over label rasters of any content and width, for three of
\* the years
DataYears == {FirstYear + 1, FirstYear + 4, FirstYear + 6}

InitData ==
    /\ pc = "loop"
    /\ \E d \in [DataYears -> {Absent} \cup { Valid(r) : r \in Rasters }] :
          lc = [y \in years |-> IF y \in DataYears THEN d[y] ELSE Absent]
    /\ s2 \in { NoS2, [y \in years |-> IF y \in DataYears THEN "valid" ELSE "absent"] }
    /\ dl_log = << >>
    /\ AnalysisStart
    /\ img = NoImage
    /\ features = << >>

NextData ==
    \/ Next
    \/ ChangeMapFails

SpecData == InitData /\ [][NextData]_vars

\* --------------------------------------------------------- download_data
\* the download_image call that main makes next: per year the Sentinel-2
\* composite, then the Dynamic World label
NextCall(log) ==
    [year |-> FirstYear + (Len(log) \div 2),
     kind |-> IF Len(log) % 2 = 0 THEN "S2" ELSE "LC"]

\* the loop ends at the first call that returned False
AfterDownload_StopOnFailure(log) ==
    IF Len(log) = 2 * Cardinality(years) \/ ~log[Len(log)].ret
    THEN "complete" ELSE "download"

\* where main stands after a download_image call returned: the loop goes on
\* whatever the call returned, and "All downloads complete!" follows the
\* last year
AfterDownload(log) ==
    IF Len(log) = 2 * Cardinality(years) THEN "complete" ELSE "download"

\* calls that returned False
Failures(log) == Cardinality({ i \in DOMAIN log : ~log[i].ret })

Entry(c, outcome, ret) ==
    [year |-> c.year, kind |-> c.kind, outcome |-> outcome, ret |-> ret]

\* status 200: the response is written to the file; returns True
DownloadSaved ==
    /\ pc = "download"
    /\ LET c == NextCall(dl_log)
       IN  /\ lc' = IF c.kind = "LC"
                    THEN [lc EXCEPT ![c.year] = Valid(Scene(c.year))] ELSE lc
           /\ s2' = IF c.kind = "S2" THEN [s2 EXCEPT ![c.year] = "valid"] ELSE s2
           /\ dl_log' = Append(dl_log, Entry(c, "saved", TRUE))
    /\ pc' = AfterDownload(dl_log')
    /\ UNCHANGED <<year, urban_stats, outDir, changeVars, report, idxVars>>

\* any other status: "Failed to download"; nothing is written; returns False
DownloadStatus ==
    /\ pc = "download"
    /\ Failures(dl_log) < MaxFailures
    /\ dl_log' = Append(dl_log, Entry(NextCall(dl_log), "status", FALSE))
    /\ pc' = AfterDownload(dl_log')
    /\ UNCHANGED <<dataDir, year, urban_stats, outDir, changeVars, report, idxVars>>

\* an exception, caught: "Error: ..."; returns False. Raised by
\* getDownloadURL or requests.get it leaves the file as it was; raised once
\* open(filename, 'wb') has run it leaves a truncated file
DownloadError ==
    /\ pc = "download"
    /\ Failures(dl_log) < MaxFailures
    /\ LET c == NextCall(dl_log)
       IN  /\ \E opened \in BOOLEAN :
                /\ lc' = IF opened /\ c.kind = "LC"
                         THEN [lc EXCEPT ![c.year] = Partial] ELSE lc
                /\ s2' = IF opened /\ c.kind = "S2"
                         THEN [s2 EXCEPT ![c.year] = "partial"] ELSE s2
           /\ dl_log' = Append(dl_log, Entry(c, "error", FALSE))
    /\ pc' = AfterDownload(dl_log')
    /\ UNCHANGED <<year, urban_stats, outDir, changeVars, report, idxVars>>

\* main_analysis.py is run on what the acquisition left in data_v2
StartAnalysis ==
    /\ pc = "complete"
    /\ pc' = "loop"
    /\ UNCHANGED <<dataDir, acqVars, year, urban_stats, outDir, changeVars, report, idxVars>>

\* data_v2 before the acquisition: empty, or one label raster kept from an
\* earlier run
InitAcq ==
    /\ pc = "download"
    /\ \E P \in {{}} \cup { {y} : y \in years } :
          lc = [y \in years |-> IF y \in P THEN Valid(Scene(y)) ELSE Absent]
    /\ s2 = NoS2
    /\ dl_log = << >>
    /\ AnalysisStart
    /\ img = NoImage
    /\ features = << >>

\* every label raster has the scene's width: ChangeMapFails is never enabled
NextAcq ==
    \/ DownloadSaved
    \/ DownloadStatus
    \/ DownloadError
    \/ StartAnalysis
    \/ SkipYear
    \/ ProcessYear
    \/ LoadFails
    \/ SatelliteLoadFails
    \/ GenerateChangeMap
    \/ GenerateReport

\* the scripts run sequentially and every network call returns
SpecAcq == InitAcq /\ [][NextAcq]_vars /\ WF_vars(NextAcq)

\* ------------------------------------------------------ calculate_indices
\* band values that rasters handed to calculate_indices hold
BandSamples == {0, 1}

\* a pixel: <<Blue, Green, Red, NIR, SWIR1, SWIR2>>
Pixels6 == [1 .. 6 -> BandSamples]

\* what load_image delivers: src.read() keeps the file's data type
Images ==
    { [dtype |-> d, px |-> p] :
        d \in {"float64", "uint16"},
        p \in UNION { [1 .. n -> Pixels6] : n \in 1 .. MaxW } }

\* a - b in the bands' own type
Sub(dtype, a, b) == IF dtype = "uint16" THEN (a - b) % (2 ^ 16) ELSE a - b

\* a + b in the bands' own type
Add(dtype, a, b) == IF dtype = "uint16" THEN (a + b) % (2 ^ 16) ELSE a + b

\* (a - b) / (a + b + epsilon): the float64 value num / (den + 1e-8)
NormDiff(dtype, a, b) == [num |-> Sub(dtype, a, b), den |-> Add(dtype, a, b)]

\* (nir - red) / (nir + red + epsilon)
Ndvi(dtype, p) == NormDiff(dtype, p[4], p[3])

\* (swir1 - nir) / (swir1 + nir + epsilon)
Ndbi(dtype, p) == NormDiff(dtype, p[5], p[4])

\* (green - swir1) / (green + swir1 + epsilon)
Mndwi(dtype, p) == NormDiff(dtype, p[2], p[5])

\* stacks NDBI before NDVI
Stack_Reordered(p, ndvi, ndbi, mndwi) == p \o << ndbi, ndvi, mndwi >>

\* np.dstack([img, ndvi, ndbi, mndwi]), at one pixel
Stack(p, ndvi, ndbi, mndwi) == p \o << ndvi, ndbi, mndwi >>

Features(image) ==
    [i \in DOMAIN image.px |->
        Stack(image.px[i], Ndvi(image.dtype, image.px[i]),
              Ndbi(image.dtype, image.px[i]), Mndwi(image.dtype, image.px[i]))]

CalculateIndices ==
    /\ pc = "indices"
    /\ features' = Features(img)
    /\ pc' = "returned"
    /\ UNCHANGED <<dataDir, acqVars, year, urban_stats, outDir, changeVars, report, img>>

InitIndices ==
    /\ pc = "indices"
    /\ lc = NoFiles
    /\ s2 = NoS2
    /\ dl_log = << >>
    /\ AnalysisStart
    /\ img \in Images
    /\ features = << >>

NextIndices == CalculateIndices

SpecIndices == InitIndices /\ [][NextIndices]_vars

\* ------------------------------------------------------------------ claims
\* the years whose label file is in the data directory
Present == { y \in years : lc[y].st # "absent" }

\* the years whose loop iteration has run to its end
Visited == { y \in years : y < year }

Least(S) == CHOOSE y \in S : \A z \in S : y <= z
Greatest(S) == CHOOSE y \in S : \A z \in S : z <= y

StatYears == { urban_stats[i][1] : i \in DOMAIN urban_stats }

RECURSIVE CountSix(_)
CountSix(s) ==
    IF s = << >> THEN 0
    ELSE (IF Head(s) = 6 THEN 1 ELSE 0) + CountSix(Tail(s))

\* c hundredths is the decimal nearest to |n|/d
NearestCents(c, n, d) == 2 * Abs(c * d - 100 * Abs(n)) <= d

Cents(v) == 100 * v.whole + v.frac

\* C1: once the change map is produced it has the shape of the start raster,
\* holds only 0 and 1, and is 1 at a pixel exactly when the start label is
\* not 6 and the end label is 6.
C1_ChangeMask ==
    change_saved =>
        /\ Len(change_map) = Len(lc_start)
        /\ Len(lc_end) = Len(lc_start)
        /\ \A i \in DOMAIN change_map :
              /\ change_map[i] \in {0, 1}
              /\ change_map[i] = 1 <=> (lc_start[i] # 6 /\ lc_end[i] = 6)

\* a mask with a newly built-up pixel next to one that was built-up before
C1_Witness ==
    /\ change_saved
    /\ lc_start = << 5, 6 >>
    /\ lc_end = << 6, 6 >>
    /\ change_map = << 1, 0 >>

\* C2: the percentage appended for a year is 100*k/N, k the number of pixels
\* of that year's label raster equal to 6 and N its number of pixels, and it
\* lies in [0, 100].
C2_UrbanPct ==
    \A i \in DOMAIN urban_stats :
        LET r == lc[urban_stats[i][1]].px
            p == urban_stats[i][2]
        IN  /\ Len(r) > 0
            /\ p.den > 0
            /\ p.num * Len(r) = 100 * CountSix(r) * p.den
            /\ 0 <= p.num
            /\ p.num <= 100 * p.den

\* a year with one built-up pixel of three, beside a year whose only pixel
\* is Bare Ground
C2_Witness ==
    /\ pc = "done"
    /\ \E i, j \in DOMAIN urban_stats :
          /\ lc[urban_stats[i][1]].px = << 5, 6, 5 >>
          /\ 3 * urban_stats[i][2].num = 100 * urban_stats[i][2].den
          /\ lc[urban_stats[j][1]].px = << 7 >>
          /\ urban_stats[j][2].num = 0

\* C3: the report holds one percentage line per statistics entry, in the
\* sequence's order, each with the entry's year and its percentage to two
\* decimals; it holds a growth line exactly when there are two entries or
\* more, and that line shows last minus first to two decimals with a + or -
\* sign, labelled with the first and the last year.
C3_Report ==
    report.written =>
        LET n == Len(urban_stats)
            pcts == SelectSeq(report.lines, LAMBDA l : l.kind = "pct")
            grow == SelectSeq(report.lines, LAMBDA l : l.kind = "growth")
        IN  /\ Len(pcts) = n
            /\ \A i \in 1 .. n :
                  /\ pcts[i].year = urban_stats[i][1]
                  /\ pcts[i].value.sign = ""
                  /\ pcts[i].value.frac \in 0 .. 99
                  /\ NearestCents(Cents(pcts[i].value),
                                  urban_stats[i][2].num, urban_stats[i][2].den)
            /\ Len(grow) = IF n >= 2 THEN 1 ELSE 0
            /\ n >= 2 =>
                  LET a == urban_stats[1][2]
                      b == urban_stats[n][2]
                      g == grow[1]
                  IN  /\ report.lines[Len(report.lines)] = g
                      /\ g.from = urban_stats[1][1]
                      /\ g.to = urban_stats[n][1]
                      /\ g.value.sign \in {"+", "-"}
                      /\ g.value.sign = "-" <=> b.num * a.den < a.num * b.den
                      /\ g.value.frac \in 0 .. 99
                      /\ NearestCents(Cents(g.value),
                                      b.num * a.den - a.num * b.den, a.den * b.den)

\* three entries, 66.67 first and 33.33 last: a growth of -33.33
C3_Witness ==
    /\ report.written
    /\ Len(urban_stats) = 3
    /\ \E l \in { report.lines[i] : i \in DOMAIN report.lines } :
          /\ l.kind = "growth"
          /\ l.value = [sign |-> "-", whole |-> 33, frac |-> 33]
    /\ \E l \in { report.lines[i] : i \in DOMAIN report.lines } :
          /\ l.kind = "pct"
          /\ l.value = [sign |-> "", whole |-> 66, frac |-> 67]

\* C4: the change step reads classification rasters and saves the change map
\* exactly when two years or more were processed; it then reads the
\* classification of the earliest and of the latest processed year, in that
\* order; with fewer it reads no classification file and saves nothing.
C4_ChangeStep ==
    /\ pc \in {"loop", "change"} => (reads = << >> /\ ~change_saved)
    /\ pc \in {"report", "done"} =>
          IF Cardinality(Present) >= 2
          THEN /\ change_saved
               /\ reads = << Least(Present), Greatest(Present) >>
               /\ lc_start = cls[Least(Present)].px
               /\ lc_end = cls[Greatest(Present)].px
          ELSE /\ ~change_saved
               /\ reads = << >>
               /\ change_map = << >>

\* years skipped at both ends and in between
C4_Witness ==
    /\ pc = "done"
    /\ change_saved
    /\ Present = {FirstYear + 1, FirstYear + 2, FirstYear + 5}
    /\ reads = << FirstYear + 1, FirstYear + 5 >>

\* the calls made so far are the first calls of the schedule, and the loop
\* stands at "download" while calls remain
C5_Schedule ==
    /\ Len(dl_log) <= 2 * Cardinality(years)
    /\ pc = "download" <=> Len(dl_log) < 2 * Cardinality(years)
    /\ \A i \in DOMAIN dl_log :
          /\ dl_log[i].year = FirstYear + ((i - 1) \div 2)
          /\ dl_log[i].kind = (IF i % 2 = 1 THEN "S2" ELSE "LC")
          /\ dl_log[i].ret = (dl_log[i].outcome = "saved")

\* C5: download_image is called for every year in ascending order, for the
\* Sentinel-2 raster and then for the label raster, once each, whatever the
\* earlier calls returned; a call returns False on a status other than 200
\* and on an exception; the loop runs to the completion message.
C5_AllDownloadsAttempted == []C5_Schedule /\ <>(pc = "complete")

\* both downloads of the first year failed and the run completed
C5_Witness ==
    /\ pc = "complete"
    /\ Len(dl_log) = 16
    /\ dl_log[1].outcome = "status"
    /\ dl_log[2].outcome = "error"
    /\ dl_log[16].year = 2025
    /\ dl_log[16].ret

\* C6: a year whose label download failed is skipped by the analysis that
\* follows: no label file is found, no statistic is appended and no map,
\* satellite image or classification raster is written for it.
C6_FailedLabelSkipped ==
    \A i \in DOMAIN dl_log :
        (/\ dl_log[i].kind = "LC"
         /\ ~dl_log[i].ret
         /\ pc \in {"loop", "change", "report", "done", "crashed"}
         /\ \/ dl_log[i].year < year
            \/ pc = "crashed" /\ dl_log[i].year = year)
        => /\ lc[dl_log[i].year].st = "absent"
           /\ dl_log[i].year < year
           /\ dl_log[i].year \notin StatYears
           /\ dl_log[i].year \notin maps \cup satellites
           /\ cls[dl_log[i].year].st = "absent"

\* the float64 value num / (den + 1e-8) lies in [-1, 1]
InUnit(v) == Abs(v.num) <= v.den

\* (a - b) / (a + b + epsilon) in the raster's data type
NormDiffOf(dtype, a, b) ==
    IF dtype = "float64"
    THEN [num |-> a - b, den |-> a + b]
    ELSE [num |-> IF a >= b THEN a - b ELSE a - b + 65536,
          den |-> IF a + b < 65536 THEN a + b ELSE a + b - 65536]

\* the stacked result, band by band
C7_Stacked ==
    pc = "returned" =>
        /\ Len(features) = Len(img.px)
        /\ \A i \in DOMAIN features :
              /\ Len(features[i]) = 9
              /\ \A b \in 1 .. 6 : features[i][b] = img.px[i][b]
              /\ features[i][7] = NormDiffOf(img.dtype, img.px[i][4], img.px[i][3])
              /\ features[i][8] = NormDiffOf(img.dtype, img.px[i][5], img.px[i][4])
              /\ features[i][9] = NormDiffOf(img.dtype, img.px[i][2], img.px[i][5])

\* C7: the result has the argument's shape and 9 bands: the argument's 6
\* bands in their order, then NDVI from NIR and Red, NDBI from SWIR1 and
\* NIR, MNDWI from Green and SWIR1; the argument is left as it was.
C7_IndicesAppended == []C7_Stacked /\ [][img' = img]_vars

\* a two-pixel raster whose three indices differ at the first pixel
C7_Witness ==
    /\ pc = "returned"
    /\ Len(features) = 2
    /\ img.px[1] = << 1, 0, 0, 1, 0, 1 >>
    /\ features[1][7] # features[1][8]
    /\ features[1][8] # features[1][9]
    /\ features[1][7] # features[1][9]

\* C8: for non-negative band values of any data type the loader delivers,
\* NDVI, NDBI and MNDWI lie in [-1, 1].
C8_IndicesBounded ==
    pc = "returned" =>
        \A i \in DOMAIN features : \A k \in 7 .. 9 : InUnit(features[i][k])

\* the entries are those of the visited years that have a label file
C9_Stats ==
    /\ StatYears = Visited \cap Present
    /\ Len(urban_stats) = Cardinality(Visited \cap Present)
    /\ \A i, j \in DOMAIN urban_stats : i < j => urban_stats[i][1] < urban_stats[j][1]

\* a step leaves urban_stats alone or, inside the loop, appends one entry
C9_Grows ==
    \/ urban_stats' = urban_stats
    \/ /\ pc = "loop"
       /\ Len(urban_stats') = Len(urban_stats) + 1
       /\ SubSeq(urban_stats', 1, Len(urban_stats)) = urban_stats

\* C9: urban_stats holds one entry for each visited year whose label file
\* exists and none for another year, in strictly ascending year order; it
\* changes only by an append inside the year loop.
C9_AppendOnly == []C9_Stats /\ [][C9_Grows]_vars

\* a finished run with three entries and a missing year between them
C9_Witness ==
    /\ pc = "done"
    /\ Len(urban_stats) = 3
    /\ urban_stats[1][1] = 2019
    /\ urban_stats[2][1] = 2020
    /\ urban_stats[3][1] = 2023

\* C10: for a visited year the map and the classification raster are written
\* exactly when the label file exists, the satellite image exactly when the
\* label file and the Sentinel-2 file both exist, and the statistic is
\* appended exactly when the label file exists; the classification raster
\* holds the loaded labels 0..8 unchanged; nothing is written for a year not
\* yet visited.
C10_Artifacts ==
    /\ \A y \in Visited :
          /\ y \in maps <=> lc[y].st # "absent"
          /\ cls[y].st = "valid" <=> lc[y].st # "absent"
          /\ y \in satellites <=> (lc[y].st # "absent" /\ s2[y] # "absent")
          /\ y \in StatYears <=> lc[y].st # "absent"
          /\ lc[y].st # "absent" =>
                /\ Len(cls[y].px) = Len(lc[y].px)
                /\ \A i \in DOMAIN lc[y].px :
                      lc[y].px[i] \in 0 .. 8 => cls[y].px[i] = lc[y].px[i]
    /\ \A y \in years \ Visited :
          /\ y \notin maps \cup satellites \cup StatYears
          /\ cls[y].st = "absent"

\* a year with a label raster and no Sentinel-2 raster, and a year with a
\* Sentinel-2 raster and no label raster
C10_Witness ==
    /\ pc = "done"
    /\ lc[2019].st = "valid" /\ s2[2019] = "absent"
    /\ 2019 \in maps /\ 2019 \notin satellites /\ cls[2019].px = << 4, 1 >>
    /\ lc[2020].st = "absent" /\ s2[2020] = "valid"
    /\ 2020 \notin maps /\ 2020 \notin satellites
    /\ lc[2024].st = "valid" /\ s2[2024] = "valid"
    /\ 2024 \in satellites

====
